---- MODULE Spec2Model ----
(***************************************************************************)
(* A model of src/src/tauri.rs: the three bindings invoke,                 *)
(* convert_file_src and transform_callback, each an async fn that makes    *)
(* one call to an imported host function (mod inner), awaits the promise   *)
(* the host returns, and reshapes the host's answer.                       *)
(*                                                                         *)
(* A call is one slot of `calls`.  It runs in segments separated by its    *)
(* await: the segment up to the host call (X_call), and the segment after  *)
(* the host settled the promise (X_resume).  The host is the environment:  *)
(* it settles pending promises in any order with any value of a small      *)
(* set, and invokes registered callbacks.                                  *)
(*                                                                         *)
(* An unwrap that fails is a panic: the call ends in "panicked" and        *)
(* returns nothing; other calls go on.  The imported functions are taken   *)
(* as declared in mod inner: each returns a promise, and only invoke's     *)
(* rejection comes back as a value (catch).  serde_wasm_bindgen, JsValue   *)
(* and Url::parse are modelled on small value sets by what they do: a u8   *)
(* deserializes from a number in 0..255 only, a String from a string only, *)
(* and a URL needs a scheme, is trimmed and has its scheme lower-cased.    *)
(***************************************************************************)
EXTENDS Integers, Sequences, FiniteSets, TLC

\* Number of calls made in one run (each slot of `calls` is one call).
MaxCalls == 2
\* Number of times the host invokes a callback in one run.
MaxInvocations == 2

CallIds == 1..MaxCalls

VARIABLES
    calls,      \* per call: the entry point, its arguments, its position, its result
    hostOps,    \* the host's operations, one per call it received, in order
    registry,   \* the host's callback registrations, by identifier
    inImport,   \* the call that is synchronously inside transformCallback, or 0
    delivered,  \* per call: the values its caller-supplied callback was called with
    invLog      \* the host's callback invocations, in order

vars == <<calls, hostOps, registry, inImport, delivered, invLog>>

----------------------------------------------------------------------------
(* Values.  A JsValue is a tag with a number and a text (a sequence of      *)
(* one-character strings); a Rust value likewise.                           *)

NoText == <<>>

JsNumber(n)  == [t |-> "number",    n |-> n, s |-> NoText]
JsString(s)  == [t |-> "string",    n |-> 0, s |-> s]
JsUndefined  == [t |-> "undefined", n |-> 0, s |-> NoText]

RsU8(n)      == [ty |-> "u8",     n |-> n, s |-> NoText]
RsString(s)  == [ty |-> "String", n |-> 0, s |-> s]
\* A value whose Serialize implementation reports an error.
RsFailing    == [ty |-> "Failing", n |-> 0, s |-> NoText]
RsNone       == [ty |-> "none",   n |-> 0, s |-> NoText]

\* Texts the host may hand back as a URL.
GoodUrlText   == <<" ", "A", "s", ":", "/", "p">>
BadUrlText    == <<"/", "p">>

\* serde_wasm_bindgen::to_value, as called by invoke.
to_value(a) ==
    CASE a.ty = "u8"     -> [ok |-> TRUE,  val |-> JsNumber(a.n)]
      [] a.ty = "String" -> [ok |-> TRUE,  val |-> JsString(a.s)]
      [] OTHER           -> [ok |-> FALSE, val |-> JsUndefined]

\* serde_wasm_bindgen::from_value into the type R.
from_value(raw, R) ==
    CASE R = "u8" /\ raw.t = "number" /\ raw.n >= 0 /\ raw.n <= 255
                 -> [ok |-> TRUE, val |-> RsU8(raw.n)]
      [] R = "String" /\ raw.t = "string"
                 -> [ok |-> TRUE, val |-> RsString(raw.s)]
      [] OTHER   -> [ok |-> FALSE, val |-> RsNone]

\* JsValue::as_string and JsValue::as_f64.
as_string(v) == [some |-> v.t = "string", s |-> IF v.t = "string" THEN v.s ELSE NoText]
as_f64(v)    == [some |-> v.t = "number", n |-> IF v.t = "number" THEN v.n ELSE 0]

----------------------------------------------------------------------------
(* Url::parse: surrounding blanks are dropped, the text must start with a   *)
(* scheme (a letter, then letters, digits, + - .) followed by a colon, and  *)
(* the scheme is lower-cased.                                               *)

Letters == {"a", "s", "p", "A"}
SchemeChars == Letters \cup {"1", "+", "-", "."}
Lower(ch) == IF ch = "A" THEN "a" ELSE ch

RECURSIVE TrimLeft(_)
TrimLeft(s) == IF s # <<>> /\ Head(s) = " " THEN TrimLeft(Tail(s)) ELSE s

RECURSIVE TrimRight(_)
TrimRight(s) ==
    IF s # <<>> /\ s[Len(s)] = " " THEN TrimRight(SubSeq(s, 1, Len(s) - 1)) ELSE s

\* Position of the first colon, or 0.
ColonAt(s) ==
    IF \E i \in 1..Len(s) : s[i] = ":"
    THEN CHOOSE i \in 1..Len(s) : s[i] = ":" /\ \A j \in 1..(i - 1) : s[j] # ":"
    ELSE 0

NoUrl == [scheme |-> NoText, rest |-> NoText]

Url_parse(text) ==
    LET t == TrimRight(TrimLeft(text))
        k == ColonAt(t)
    IN  IF k > 1 /\ t[1] \in Letters /\ \A j \in 1..(k - 1) : t[j] \in SchemeChars
        THEN [ok |-> TRUE,
              url |-> [scheme |-> [j \in 1..(k - 1) |-> Lower(t[j])],
                       rest   |-> SubSeq(t, k + 1, Len(t))]]
        ELSE [ok |-> FALSE, url |-> NoUrl]

----------------------------------------------------------------------------
(* Results of a call.                                                       *)

NoRes         == [kind |-> "none",      rv |-> RsNone, js |-> JsUndefined, url |-> NoUrl]
Panic         == [kind |-> "panic",     rv |-> RsNone, js |-> JsUndefined, url |-> NoUrl]
Ok(v)         == [kind |-> "Ok",        rv |-> v,      js |-> JsUndefined, url |-> NoUrl]
\* crate::Error::Other(JsValue)
Error_Other(j) == [kind |-> "Err_Other", rv |-> RsNone, js |-> j,          url |-> NoUrl]
\* the serde_wasm_bindgen error converted by Into::into
Error_from(j) == [kind |-> "Err_Serde", rv |-> RsNone, js |-> JsUndefined, url |-> NoUrl]
UrlRes(u)     == [kind |-> "Url",       rv |-> RsNone, js |-> JsUndefined, url |-> u]
F64Res(n)     == [kind |-> "f64",       rv |-> [ty |-> "f64", n |-> n, s |-> NoText],
                  js |-> JsUndefined, url |-> NoUrl]

NoOpt == [some |-> FALSE, s |-> ""]
Some(s) == [some |-> TRUE, s |-> s]

IdleCall == [fn |-> "none", pc |-> "idle", cmd |-> "", arg |-> RsNone, opt |-> NoOpt,
             ty |-> "none", once |-> FALSE, promise |-> 0, res |-> NoRes]

\* The inputs the entry points are called with.
InvokeInputs ==
    { [cmd |-> "login", arg |-> RsU8(1),              ty |-> "u8"],
      [cmd |-> "greet", arg |-> RsString(<<"p">>),    ty |-> "String"],
      [cmd |-> "login", arg |-> RsFailing,            ty |-> "u8"] }
ConvertInputs ==
    { [path |-> "/a", opt |-> NoOpt], [path |-> "/b", opt |-> Some("stream")] }
CallbackTypes == {"u8"}

\* The values the host answers with.
InvokeAnswers == {JsNumber(1), JsNumber(256), JsString(<<"p">>)}
InvokeRejections == {JsNumber(1)}
ConvertAnswers == {JsString(GoodUrlText), JsString(BadUrlText), JsNumber(1)}
CallbackValues == {JsNumber(1), JsString(<<"p">>)}

----------------------------------------------------------------------------
Init ==
    /\ calls = [c \in CallIds |-> IdleCall]
    /\ hostOps = <<>>
    /\ registry = <<>>
    /\ inImport = 0
    /\ delivered = [c \in CallIds |-> <<>>]
    /\ invLog = <<>>

\* Call ids number the calls in the order they are made.
NextToStart(c) ==
    /\ calls[c].pc = "idle"
    /\ \A d \in CallIds : d < c => calls[d].pc # "idle"

\* One host operation: what the imported function was called with, and the
\* promise it returned.
HostOp(c, fn, cmd, js, opt, once, state) ==
    [caller |-> c, fn |-> fn, cmd |-> cmd, js |-> js, opt |-> opt, once |-> once,
     state |-> state, val |-> JsUndefined, id |-> 0]

----------------------------------------------------------------------------
(* invoke                                                                   *)

\* Mutant: the args are handed over without being serialized.
invoke_args_unserialized(cmd, arg) == [cmd |-> cmd, js |-> JsUndefined]

\* The two arguments handed to inner::invoke: the command name and the
\* serialized args.
invoke_args(cmd, arg) == [cmd |-> cmd, js |-> to_value(arg).val]

\* Mutant: the host is called a second time for the same call.
inner_invoke_twice(ops, c, req) ==
    LET op == HostOp(c, "invoke", req.cmd, req.js, NoOpt, FALSE, "pending")
    IN  Append(Append(ops, op), op)

\* The host receives one invoke operation and returns its promise.
inner_invoke(ops, c, req) ==
    Append(ops, HostOp(c, "invoke", req.cmd, req.js, NoOpt, FALSE, "pending"))

\* First segment of invoke: serialize (unwrap: a serialization error
\* panics), call the host, suspend on the promise.
invoke_call(c) ==
    /\ inImport = 0
    /\ NextToStart(c)
    /\ \E inp \in InvokeInputs :
         LET started == [calls[c] EXCEPT !.fn = "invoke", !.cmd = inp.cmd,
                                         !.arg = inp.arg, !.ty = inp.ty]
             ops == inner_invoke(hostOps, c, invoke_args(inp.cmd, inp.arg))
         IN  IF to_value(inp.arg).ok
             THEN /\ hostOps' = ops
                  /\ calls' = [calls EXCEPT ![c] =
                        [started EXCEPT !.pc = "awaiting", !.promise = Len(ops)]]
             ELSE /\ hostOps' = hostOps
                  /\ calls' = [calls EXCEPT ![c] =
                        [started EXCEPT !.pc = "panicked", !.res = Panic]]
    /\ UNCHANGED <<registry, inImport, delivered, invLog>>

\* Mutant: a call is woken by whichever promise settled first, not its own.
Awaited_any_settled(c) ==
    IF \E p \in DOMAIN hostOps : hostOps[p].state \in {"resolved", "rejected"}
    THEN hostOps[CHOOSE p \in DOMAIN hostOps :
                    /\ hostOps[p].state \in {"resolved", "rejected"}
                    /\ \A q \in 1..(p - 1) : hostOps[q].state \notin {"resolved", "rejected"}]
    ELSE hostOps[calls[c].promise]

\* The host operation whose promise call c is suspended on.
Awaited(c) == hostOps[calls[c].promise]

Settled(op) == op.state \in {"resolved", "rejected"}

\* Mutant: a rejection value is deserialized like a response.
invoke_finish_deserializes_rejection(op, R) ==
    LET d == from_value(op.val, R)
    IN  IF d.ok THEN Ok(d.val)
        ELSE IF op.state = "rejected" THEN Error_Other(op.val) ELSE Error_from(op.val)

\* Mutant: a response that cannot be deserialized is reported as a host error.
invoke_finish_one_error(op, R) ==
    LET d == from_value(op.val, R)
    IN  IF op.state = "resolved" /\ d.ok THEN Ok(d.val) ELSE Error_Other(op.val)

\* Mutant: the response is unwrapped instead of being mapped to an error.
invoke_finish_unwrap(op, R) ==
    IF op.state = "rejected"
    THEN Error_Other(op.val)
    ELSE LET d == from_value(op.val, R)
         IN  IF d.ok THEN Ok(d.val) ELSE Panic

\* Mutant: a flag shared by all calls lets only the first finished call
\* through.
invoke_finish_shared_flag(op, R) ==
    IF \E d \in CallIds : calls[d].pc = "done"
    THEN Error_Other(JsUndefined)
    ELSE IF op.state = "rejected"
         THEN Error_Other(op.val)
         ELSE LET d == from_value(op.val, R)
              IN  IF d.ok THEN Ok(d.val) ELSE Error_from(op.val)

\* What invoke makes of the settled promise: a rejection is returned as
\* Error::Other by `?`, a resolution is deserialized into R.
invoke_finish(op, R) ==
    IF op.state = "rejected"
    THEN Error_Other(op.val)
    ELSE LET d == from_value(op.val, R)
         IN  IF d.ok THEN Ok(d.val) ELSE Error_from(op.val)

PcAfter(res) == IF res.kind = "panic" THEN "panicked" ELSE "done"

\* Second segment of invoke, run once the awaited promise is settled.
invoke_resume(c) ==
    /\ inImport = 0
    /\ calls[c].fn = "invoke"
    /\ calls[c].pc = "awaiting"
    /\ Settled(Awaited(c))
    /\ LET res == invoke_finish(Awaited(c), calls[c].ty)
       IN  calls' = [calls EXCEPT ![c] = [@ EXCEPT !.res = res, !.pc = PcAfter(res)]]
    /\ UNCHANGED <<hostOps, registry, inImport, delivered, invLog>>

----------------------------------------------------------------------------
(* convert_file_src                                                         *)

inner_convertFileSrc(ops, c, filePath, protocol) ==
    Append(ops, HostOp(c, "convertFileSrc", filePath, JsUndefined, protocol, FALSE,
                       "pending"))

convert_file_src_call(c) ==
    /\ inImport = 0
    /\ NextToStart(c)
    /\ \E inp \in ConvertInputs :
         LET ops == inner_convertFileSrc(hostOps, c, inp.path, inp.opt)
         IN  /\ hostOps' = ops
             /\ calls' = [calls EXCEPT ![c] =
                   [@ EXCEPT !.fn = "convert_file_src", !.cmd = inp.path,
                             !.opt = inp.opt, !.pc = "awaiting",
                             !.promise = Len(ops)]]
    /\ UNCHANGED <<registry, inImport, delivered, invLog>>

\* Mutant: a text that does not parse yields a default URL instead of failing.
convert_finish_lenient(op) ==
    LET s == as_string(op.val)
        u == Url_parse(s.s)
    IN  IF s.some THEN UrlRes(u.url) ELSE Panic

\* as_string().unwrap(), then Url::parse(..).unwrap().
convert_finish(op) ==
    LET s == as_string(op.val)
        u == Url_parse(s.s)
    IN  IF s.some /\ u.ok THEN UrlRes(u.url) ELSE Panic

convert_file_src_resume(c) ==
    /\ inImport = 0
    /\ calls[c].fn = "convert_file_src"
    /\ calls[c].pc = "awaiting"
    /\ Settled(Awaited(c))
    /\ LET res == convert_finish(Awaited(c))
       IN  calls' = [calls EXCEPT ![c] = [@ EXCEPT !.res = res, !.pc = PcAfter(res)]]
    /\ UNCHANGED <<hostOps, registry, inImport, delivered, invLog>>

----------------------------------------------------------------------------
(* transform_callback                                                       *)

\* Mutant: the once flag is not handed on.
transform_once_dropped(once) == FALSE

\* The `once` argument handed to inner::transformCallback.
transform_once(once) == once

\* The host function assigns the next identifier to the function it was
\* given and keeps it under that identifier, with the once flag.
HostRegister(reg, c, once) == Append(reg, [owner |-> c, once |-> once, live |-> TRUE])

\* The host receives one transformCallback operation; its function body is
\* running until it returns the promise.
inner_transformCallback(ops, c, once, id) ==
    Append(ops, [HostOp(c, "transformCallback", "", JsUndefined, NoOpt, once, "running")
                 EXCEPT !.id = id])

\* First segment of transform_callback: wrap the callback in a closure
\* borrowed for the call and enter the host function with it.
transform_callback_call(c) ==
    /\ inImport = 0
    /\ NextToStart(c)
    /\ \E T \in CallbackTypes, once \in BOOLEAN :
         LET reg == HostRegister(registry, c, transform_once(once))
             ops == inner_transformCallback(hostOps, c, transform_once(once), Len(reg))
         IN  /\ registry' = reg
             /\ hostOps' = ops
             /\ calls' = [calls EXCEPT ![c] =
                   [@ EXCEPT !.fn = "transform_callback", !.ty = T, !.once = once,
                             !.pc = "importing", !.promise = Len(ops)]]
    /\ inImport' = c
    /\ UNCHANGED <<delivered, invLog>>

\* The closure handed to the host is a temporary borrowed as
\* `&dyn Fn(JsValue)`: the host may call it while the imported function is
\* running; the binding glue invalidates the function object it gave the
\* host when the imported function returns, so a later call from the host
\* raises an exception on the host side and does not enter the closure.
WrapperValid(c) == inImport = c

\* The closure: deserialize the host's value (unwrap), then call the
\* caller's function with it.
wrapper(raw, T) == from_value(raw, T)

\* A registration made with the once flag is discarded by the host at its
\* first use.
HostDiscard(reg, id) ==
    IF reg[id].live /\ reg[id].once THEN [reg EXCEPT ![id].live = FALSE] ELSE reg

\* The host invokes the function kept under identifier id with raw.
HostInvokeCallback(id, raw) ==
    /\ Len(invLog) < MaxInvocations
    /\ id \in 1..Len(registry)
    /\ LET r == registry[id]
           c == r.owner
           d == wrapper(raw, calls[c].ty)
           outcome == CASE ~r.live          -> "gone"
                        [] ~WrapperValid(c) -> "throw"
                        [] ~d.ok            -> "panic"
                        [] OTHER            -> "called"
           \* the log keeps the value the closure received, if it was entered
           got == IF outcome \in {"called", "panic"} THEN raw ELSE JsUndefined
       IN  /\ invLog' = Append(invLog, [id |-> id, raw |-> got, outcome |-> outcome])
           /\ registry' = HostDiscard(registry, id)
           /\ delivered' = IF outcome = "called"
                           THEN [delivered EXCEPT ![c] = Append(@, d.val)]
                           ELSE delivered
           /\ calls' = IF outcome = "panic"
                       THEN [calls EXCEPT ![c] = [@ EXCEPT !.pc = "panicked",
                                                           !.res = Panic]]
                       ELSE calls
           /\ inImport' = IF outcome = "panic" THEN 0 ELSE inImport
    /\ UNCHANGED hostOps

\* The host function returns its promise: the borrowed closure ends here and
\* the call is suspended on the promise.
HostReturn ==
    /\ inImport # 0
    /\ LET c == inImport
           p == calls[c].promise
       IN  /\ hostOps' = [hostOps EXCEPT ![p].state = "pending"]
           /\ calls' = [calls EXCEPT ![c].pc = "awaiting"]
    /\ inImport' = 0
    /\ UNCHANGED <<registry, delivered, invLog>>

\* as_f64().unwrap()
transform_finish(op) ==
    LET f == as_f64(op.val)
    IN  IF f.some THEN F64Res(f.n) ELSE Panic

transform_callback_resume(c) ==
    /\ inImport = 0
    /\ calls[c].fn = "transform_callback"
    /\ calls[c].pc = "awaiting"
    /\ Settled(Awaited(c))
    /\ LET res == transform_finish(Awaited(c))
       IN  calls' = [calls EXCEPT ![c] = [@ EXCEPT !.res = res, !.pc = PcAfter(res)]]
    /\ UNCHANGED <<hostOps, registry, inImport, delivered, invLog>>

----------------------------------------------------------------------------
(* The host settling promises.                                               *)

\* The values the host may resolve operation op with.
AnswersFor(op) ==
    CASE op.fn = "invoke"         -> InvokeAnswers
      [] op.fn = "convertFileSrc" -> ConvertAnswers
      [] OTHER                    -> {JsNumber(op.id), JsUndefined}

HostResolve(p) ==
    /\ inImport = 0
    /\ p \in 1..Len(hostOps)
    /\ hostOps[p].state = "pending"
    /\ \E v \in AnswersFor(hostOps[p]) :
         hostOps' = [hostOps EXCEPT ![p] = [@ EXCEPT !.state = "resolved", !.val = v]]
    /\ UNCHANGED <<calls, registry, inImport, delivered, invLog>>

\* Only inner::invoke is declared with `catch`: only its rejection comes
\* back as a value.
HostReject(p) ==
    /\ inImport = 0
    /\ p \in 1..Len(hostOps)
    /\ hostOps[p].state = "pending"
    /\ hostOps[p].fn = "invoke"
    /\ \E v \in InvokeRejections :
         hostOps' = [hostOps EXCEPT ![p] = [@ EXCEPT !.state = "rejected", !.val = v]]
    /\ UNCHANGED <<calls, registry, inImport, delivered, invLog>>

----------------------------------------------------------------------------
OpIds == 1..(2 * MaxCalls)

Next ==
    \/ \E c \in CallIds : invoke_call(c)
    \/ \E c \in CallIds : invoke_resume(c)
    \/ \E c \in CallIds : convert_file_src_call(c)
    \/ \E c \in CallIds : convert_file_src_resume(c)
    \/ \E c \in CallIds : transform_callback_call(c)
    \/ \E c \in CallIds : transform_callback_resume(c)
    \/ HostReturn
    \/ \E id \in CallIds, raw \in CallbackValues : HostInvokeCallback(id, raw)
    \/ \E p \in OpIds : HostResolve(p)
    \/ \E p \in OpIds : HostReject(p)

Spec == Init /\ [][Next]_vars

\* Runs in which invoke is the only entry point called.
NextInvoke ==
    \/ \E c \in CallIds : invoke_call(c)
    \/ \E c \in CallIds : invoke_resume(c)
    \/ \E p \in OpIds : HostResolve(p)
    \/ \E p \in OpIds : HostReject(p)

\* The executor runs a call again once the promise it awaits is settled.
FairInvokeSpec ==
    /\ Init
    /\ [][NextInvoke]_vars
    /\ \A c \in CallIds : WF_vars(invoke_resume(c))

----------------------------------------------------------------------------
(* Properties.                                                              *)

\* The host operations call c made.
OpsOf(c) == {p \in DOMAIN hostOps : hostOps[p].caller = c}
\* The host operation behind the promise call c holds.
OwnOp(c) == hostOps[calls[c].promise]
Finished(c) == calls[c].pc \in {"done", "panicked"}
IsInvoke(c) == calls[c].fn = "invoke"
IsConvert(c) == calls[c].fn = "convert_file_src"
IsTransform(c) == calls[c].fn = "transform_callback"

\* C1: invoke hands the host exactly the command name and the serialized
\* form of the args; when the host resolves with a value that deserializes
\* into the result type, invoke returns that deserialized value, and it
\* never returns a value that is not the deserialized host response.
C1_InvokeForwardsAndReturns ==
    \A c \in CallIds : IsInvoke(c) =>
        /\ \A p \in OpsOf(c) :
              /\ hostOps[p].fn = "invoke"
              /\ hostOps[p].cmd = calls[c].cmd
              /\ to_value(calls[c].arg).ok
              /\ hostOps[p].js = to_value(calls[c].arg).val
        /\ (Finished(c) /\ calls[c].promise # 0 /\ OwnOp(c).state = "resolved"
              /\ from_value(OwnOp(c).val, calls[c].ty).ok)
           => calls[c].res = Ok(from_value(OwnOp(c).val, calls[c].ty).val)
        /\ calls[c].res.kind = "Ok"
           => /\ OwnOp(c).state = "resolved"
              /\ from_value(OwnOp(c).val, calls[c].ty).ok
              /\ calls[c].res.rv = from_value(OwnOp(c).val, calls[c].ty).val

C1_Witness ==
    \E c \in CallIds :
        /\ IsInvoke(c) /\ calls[c].pc = "done"
        /\ OwnOp(c).js = JsString(<<"p">>)
        /\ calls[c].res = Ok(RsString(<<"p">>))

\* C2: when the host rejects, invoke returns an error carrying the
\* rejection value as given, never a success value, and the rejection value
\* is not deserialized into the result type.
C2_RejectionIsError ==
    \A c \in CallIds :
        (IsInvoke(c) /\ calls[c].promise # 0 /\ OwnOp(c).state = "rejected"
            /\ calls[c].pc # "awaiting")
        => /\ calls[c].pc = "done"
           /\ calls[c].res.kind = "Err_Other"
           /\ calls[c].res.js = OwnOp(c).val
           /\ calls[c].res.rv = RsNone

\* The rejection value would have deserialized into the result type.
C2_Witness ==
    \E c \in CallIds :
        /\ IsInvoke(c) /\ calls[c].pc = "done"
        /\ OwnOp(c).state = "rejected"
        /\ from_value(OwnOp(c).val, calls[c].ty).ok

\* C3: a host rejection is reported as the host error and never as the
\* deserialization error; a resolved response that cannot be deserialized
\* is reported as the deserialization error and never as the host error.
C3_TwoDistinctFailures ==
    \A c \in CallIds : (IsInvoke(c) /\ calls[c].pc = "done") =>
        /\ calls[c].res.kind = "Err_Other" <=> OwnOp(c).state = "rejected"
        /\ calls[c].res.kind = "Err_Serde"
           <=> (OwnOp(c).state = "resolved"
                /\ ~from_value(OwnOp(c).val, calls[c].ty).ok)

C3_Witness ==
    \E c, d \in CallIds :
        /\ IsInvoke(c) /\ calls[c].pc = "done" /\ calls[c].res.kind = "Err_Other"
        /\ IsInvoke(d) /\ calls[d].pc = "done" /\ calls[d].res.kind = "Err_Serde"

\* C5: convert_file_src hands the host the path and the optional protocol
\* unchanged; it returns a URL exactly when the host's answer is a text that
\* parses, and then the URL is the parse of that text; otherwise it fails
\* without a URL; the same answer always gives the same outcome.
C5_ConvertParsesHostText ==
    /\ \A c \in CallIds : IsConvert(c) =>
          /\ \A p \in OpsOf(c) :
                /\ hostOps[p].fn = "convertFileSrc"
                /\ hostOps[p].cmd = calls[c].cmd
                /\ hostOps[p].opt = calls[c].opt
          /\ Finished(c) =>
                LET v == OwnOp(c).val
                    parses == v.t = "string" /\ Url_parse(v.s).ok
                IN  /\ calls[c].res.kind = "Url" <=> parses
                    /\ parses => calls[c].res.url = Url_parse(v.s).url
                    /\ ~parses => calls[c].res = Panic /\ calls[c].pc = "panicked"
    /\ \A c, d \in CallIds :
          (IsConvert(c) /\ IsConvert(d) /\ Finished(c) /\ Finished(d)
             /\ OwnOp(c).val = OwnOp(d).val)
          => calls[c].res = calls[d].res

C5_Witness ==
    \E c, d \in CallIds :
        /\ IsConvert(c) /\ calls[c].pc = "done"
        /\ OwnOp(c).val = JsString(GoodUrlText)
        /\ calls[c].res.url = [scheme |-> <<"a", "s">>, rest |-> <<"/", "p">>]
        /\ OwnOp(c).opt = Some("stream")
        /\ IsConvert(d) /\ calls[d].pc = "panicked"
        /\ OwnOp(d).val = JsString(BadUrlText)

C7_ExactlyOneHostCall ==
    \A c \in CallIds : calls[c].pc # "idle" => Cardinality(OpsOf(c)) = 1

HostFnOf(c) ==
    CASE IsInvoke(c)  -> "invoke"
      [] IsConvert(c) -> "convertFileSrc"
      [] OTHER        -> "transformCallback"

\* C7, amended: a call makes at most one call to the corresponding host
\* function, whatever the host answers: exactly one, except that invoke
\* with args that cannot be serialized aborts before calling the host.
C7_NoRetry ==
    \A c \in CallIds : calls[c].pc # "idle" =>
        /\ Cardinality(OpsOf(c)) =
              IF IsInvoke(c) /\ ~to_value(calls[c].arg).ok THEN 0 ELSE 1
        /\ \A p \in OpsOf(c) : hostOps[p].fn = HostFnOf(c)

C7_Witness ==
    \E c, d \in CallIds :
        /\ IsInvoke(c) /\ calls[c].pc = "done" /\ OwnOp(c).state = "rejected"
        /\ IsInvoke(d) /\ calls[d].pc = "done" /\ calls[d].res.kind = "Err_Serde"

\* C9: an invoke call completes only after the host settled that call's own
\* operation, with the outcome of that operation and of no other pending
\* call; and once the host settled it, the call does complete.
C9_OwnOutcome ==
    \A c \in CallIds : (IsInvoke(c) /\ calls[c].pc = "done") =>
        /\ OwnOp(c).caller = c
        /\ Settled(OwnOp(c))
        /\ calls[c].res.kind = "Err_Other"
           => OwnOp(c).state = "rejected" /\ calls[c].res.js = OwnOp(c).val
        /\ calls[c].res.kind = "Ok"
           => /\ OwnOp(c).state = "resolved"
              /\ calls[c].res.rv = from_value(OwnOp(c).val, calls[c].ty).val
        /\ calls[c].res.kind = "Err_Serde"
           => /\ OwnOp(c).state = "resolved"
              /\ ~from_value(OwnOp(c).val, calls[c].ty).ok

C9_SuspendsUntilSettled ==
    /\ []C9_OwnOutcome
    /\ \A c \in CallIds :
          (IsInvoke(c) /\ calls[c].pc = "awaiting" /\ Settled(OwnOp(c)))
             ~> (calls[c].pc = "done")

\* The later call has completed while the earlier one is still pending.
C9_Witness ==
    \E c, d \in CallIds :
        /\ c < d
        /\ IsInvoke(c) /\ calls[c].pc = "awaiting" /\ OwnOp(c).state = "pending"
        /\ IsInvoke(d) /\ calls[d].pc = "done" /\ calls[d].res.kind = "Ok"

\* C10: no state is kept across calls: two calls of the same entry point
\* with the same arguments and the same host answer have the same outcome,
\* whatever calls were made before each.
SameAnswer(c, d) ==
    IF calls[c].promise = 0 \/ calls[d].promise = 0
    THEN calls[c].promise = calls[d].promise
    ELSE /\ OwnOp(c).state = OwnOp(d).state
         /\ OwnOp(c).val = OwnOp(d).val

C10_Stateless ==
    \A c, d \in CallIds :
        (/\ Finished(c) /\ Finished(d)
         /\ calls[c].fn = calls[d].fn
         /\ calls[c].cmd = calls[d].cmd
         /\ calls[c].arg = calls[d].arg
         /\ calls[c].opt = calls[d].opt
         /\ calls[c].ty = calls[d].ty
         /\ calls[c].once = calls[d].once
         /\ SameAnswer(c, d))
        => calls[c].res = calls[d].res

C10_Witness ==
    \E c, d \in CallIds :
        /\ c # d
        /\ IsInvoke(c) /\ IsInvoke(d)
        /\ calls[c].pc = "done" /\ calls[d].pc = "done"
        /\ calls[c].cmd = calls[d].cmd /\ calls[c].arg = calls[d].arg
        /\ calls[c].ty = calls[d].ty
        /\ SameAnswer(c, d)
        /\ calls[c].res.kind = "Ok"

\* C6: the identifier transform_callback returns is the one the host
\* assigned to this call's function, and it stays that function's
\* identifier; with the once flag set, after the host's first invocation
\* through the identifier no later invocation reaches the caller's function.
C6_IdentifierAndOnce ==
    \A c \in CallIds : IsTransform(c) =>
        /\ OwnOp(c).id \in DOMAIN registry
        /\ \A id \in DOMAIN registry : registry[id].owner = c <=> id = OwnOp(c).id
        /\ calls[c].pc = "done" => calls[c].res = F64Res(OwnOp(c).id)
        /\ calls[c].once =>
              /\ Len(delivered[c]) <= 1
              /\ \A i, j \in DOMAIN invLog :
                    (i < j /\ invLog[i].id = OwnOp(c).id /\ invLog[j].id = OwnOp(c).id)
                    => invLog[j].outcome = "gone"

\* A once registration invoked twice: the first invocation called the
\* caller's function, the second found nothing, and the call returned the
\* host's identifier.
C6_Witness ==
    \E c \in CallIds :
        /\ IsTransform(c) /\ calls[c].once /\ calls[c].pc = "done"
        /\ calls[c].res = F64Res(OwnOp(c).id)
        /\ Len(invLog) = 2
        /\ invLog[1].id = OwnOp(c).id /\ invLog[1].outcome = "called"
        /\ invLog[2].id = OwnOp(c).id /\ invLog[2].outcome = "gone"
        /\ delivered[c] = <<RsU8(1)>>

\* The values of the invocations that called the function of call c, in order.
RECURSIVE CalledValues(_, _)
CalledValues(log, c) ==
    IF log = <<>> THEN <<>>
    ELSE LET e == Head(log)
             rest == CalledValues(Tail(log), c)
         IN  IF registry[e.id].owner = c /\ e.outcome = "called"
             THEN <<from_value(e.raw, calls[c].ty).val>> \o rest
             ELSE rest

\* C8: each time the host invokes a registered callback, the value is
\* deserialized and the caller's function is called exactly once with the
\* deserialized value; it is not called when the value cannot be
\* deserialized, and never with a value that was not deserialized.
C8_EachInvocationDelivered ==
    /\ \A i \in DOMAIN invLog :
          invLog[i].outcome # "gone" =>
             /\ invLog[i].outcome \in {"called", "panic"}
             /\ invLog[i].outcome = "called"
                <=> from_value(invLog[i].raw, calls[registry[invLog[i].id].owner].ty).ok
    /\ \A c \in CallIds : delivered[c] = CalledValues(invLog, c)

====
